---- MODULE Spec2Model ----
(***************************************************************************)
(* Model of scripts/generate_appstore.py: the AppStoreGenerator that walks *)
(* apps/<app>/<version>/ and writes the catalog appstore.json.             *)
(*                                                                         *)
(* A name (of a directory or file) is a sequence of one-character strings, *)
(* so that startswith, replace, re.match, title() and the code-point order *)
(* used by list.sort are computed character by character.  A text (the     *)
(* value of an f-string, the contents of a README) is a flat sequence of   *)
(* strings, concatenated with \o the way the f-string concatenates.        *)
(***************************************************************************)
EXTENDS Integers, Sequences, FiniteSets, TLC

(***************************************************************************)
(* Bounds of the model.                                                    *)
(***************************************************************************)
MaxApps == 2        \* entries of the apps root, in the run family
MaxVersions == 2    \* entries of an application directory, in the run family
MaxFiles == 2       \* entries of a version directory, in the file family
MaxNameLen == 4     \* length of the generated directory names

(***************************************************************************)
(* Characters and strings.                                                 *)
(***************************************************************************)
LowerCase == <<"a","b","c","d","e","f","g","h","i","j","k","l","m",
               "n","o","p","q","r","s","t","u","v","w","x","y","z">>
UpperCase == <<"A","B","C","D","E","F","G","H","I","J","K","L","M",
               "N","O","P","Q","R","S","T","U","V","W","X","Y","Z">>
Digits == <<"0","1","2","3","4","5","6","7","8","9">>

Range(s) == {s[i] : i \in 1..Len(s)}
IndexOf(c, s) == CHOOSE i \in 1..Len(s) : s[i] = c

IsLower(c) == c \in Range(LowerCase)
IsUpper(c) == c \in Range(UpperCase)
IsDigit(c) == c \in Range(Digits)

\* ord(c): the code point, which Python's str comparison orders by.
Ord(c) ==
    IF IsDigit(c) THEN 47 + IndexOf(c, Digits)
    ELSE IF IsUpper(c) THEN 64 + IndexOf(c, UpperCase)
    ELSE IF IsLower(c) THEN 96 + IndexOf(c, LowerCase)
    ELSE IF c = "-" THEN 45
    ELSE IF c = "." THEN 46
    ELSE 95   \* "_"

Min(a, b) == IF a <= b THEN a ELSE b

\* a < b for str: the first differing character decides, a proper prefix is smaller.
StrLess(a, b) ==
    \E k \in 1..(Min(Len(a), Len(b)) + 1) :
        /\ \A i \in 1..(k - 1) : a[i] = b[i]
        /\ \/ k > Len(a) /\ k <= Len(b)
           \/ k <= Len(a) /\ k <= Len(b) /\ Ord(a[k]) < Ord(b[k])

\* name.startswith('.')
StartsWithDot(name) == Len(name) >= 1 /\ name[1] = "."

\* c in s
Contains(s, c) == \E i \in 1..Len(s) : s[i] = c

\* s.replace(old, new) for single characters
Replace(s, old, new) == [i \in 1..Len(s) |-> IF s[i] = old THEN new ELSE s[i]]

ToUpper(c) == IF IsLower(c) THEN UpperCase[IndexOf(c, LowerCase)] ELSE c
ToLower(c) == IF IsUpper(c) THEN LowerCase[IndexOf(c, UpperCase)] ELSE c
IsCased(c) == IsLower(c) \/ IsUpper(c)

\* str.capitalize(): the bug of upper-casing the first character only
Capitalize(s) ==
    [i \in 1..Len(s) |-> IF i = 1 THEN ToUpper(s[i]) ELSE ToLower(s[i])]

\* str.title(): a cased character is upper-cased when the character before it is
\* not cased (or there is none), and lower-cased otherwise; the rest is kept.
Title(s) ==
    [i \in 1..Len(s) |->
        IF ~IsCased(s[i]) THEN s[i]
        ELSE IF i > 1 /\ IsCased(s[i - 1]) THEN ToLower(s[i])
        ELSE ToUpper(s[i])]

(***************************************************************************)
(* list.sort(key=lambda x: x.name, reverse=...) on a list of records with  *)
(* a name field (Path objects, file-info dicts): insertion in list order,  *)
(* which is stable like Python's sort.                                     *)
(***************************************************************************)
RECURSIVE InsertByName(_, _, _)
InsertByName(x, sorted, reverse) ==
    IF sorted = <<>> THEN <<x>>
    ELSE IF (IF reverse THEN StrLess(Head(sorted).name, x.name)
                        ELSE StrLess(x.name, Head(sorted).name))
         THEN <<x>> \o sorted
         ELSE <<Head(sorted)>> \o InsertByName(x, Tail(sorted), reverse)

RECURSIVE SortByNameFrom(_, _, _)
SortByNameFrom(list, acc, reverse) ==
    IF list = <<>> THEN acc
    ELSE SortByNameFrom(Tail(list), InsertByName(Head(list), acc, reverse), reverse)

\* the bug of leaving a listing in the order iterdir() gave
Unsorted(list, reverse) == list

SortByName(list, reverse) == SortByNameFrom(list, <<>>, reverse)

(***************************************************************************)
(* The state.  fs, environ, tz and clock are the world the script runs in; *)
(* output_file is appstore.json; the rest are the generator's fields and   *)
(* the locals of generate() and process_app(), with pc the position.       *)
(***************************************************************************)
VARIABLES
    fs,            \* [exists: is there an apps/ directory, root: its entries]
    environ,       \* os.environ, restricted to GITHUB_REPOSITORY
    tz,            \* the host's local time zone, seconds east of UTC
    clock,         \* time.time(), in whole seconds, taken as one value per run
    output_file,   \* <<>> when appstore.json is absent, else <<its contents>>
    github_repo,   \* self.github_repo
    pc,            \* "start", "apps", "versions", "done"
    store_data,    \* generate(): store_data
    app_dirs,      \* generate(): app_dirs
    i,             \* generate(): position of the for loop in app_dirs
    metadata,      \* process_app(): metadata
    app_data,      \* process_app(): app_data
    version_dirs,  \* process_app(): version_dirs
    j,             \* process_app(): position of the for loop in version_dirs
    saves,         \* history: number of calls of save() in this run
    log,           \* history: the applications named in "Error processing" lines
    opened,        \* history: the files of application directories open()ed
    listed,        \* history: the directories iterdir() was called on
    run,           \* history: 1 in the first run, 2 in the re-run
    first          \* history: the world and the output of the first run

vars == <<fs, environ, tz, clock, output_file, github_repo, pc, store_data,
          app_dirs, i, metadata, app_data, version_dirs, j, saves, log,
          opened, listed, run, first>>

\* dict.get(key, default)
Get(d, key, default) == IF key \in DOMAIN d THEN d[key] ELSE default

\* Path(...): the model keeps the last component, which is all the code reads.
Path(name) == [name |-> name]

IsDir(node) == node.kind = "dir"
IsFile(node) == node.kind = "file"

(***************************************************************************)
(* __init__ (lines 16-21)                                                  *)
(***************************************************************************)
DefaultRepo == <<"yourusername/appstore">>

InitRepo(env) == Get(env, "GITHUB_REPOSITORY", DefaultRepo)

base_url == <<"https://raw.githubusercontent.com/">> \o github_repo \o <<"/main">>

(***************************************************************************)
(* get_file_info (lines 23-31).  time.gmtime breaks the mtime down in UTC; *)
(* the days-to-date conversion is the proleptic Gregorian one.             *)
(***************************************************************************)
CivilFromDays(days) ==
    LET z == days + 719468
        era == z \div 146097
        doe == z - era * 146097
        yoe == (doe - doe \div 1460 + doe \div 36524 - doe \div 146096) \div 365
        doy == doe - (365 * yoe + yoe \div 4 - yoe \div 100)
        mp == (5 * doy + 2) \div 153
        d == doy - (153 * mp + 2) \div 5 + 1
        m == IF mp < 10 THEN mp + 3 ELSE mp - 9
        y == yoe + era * 400 + (IF m <= 2 THEN 1 ELSE 0)
    IN  [year |-> y, mon |-> m, mday |-> d]

BrokenDown(t) ==
    LET date == CivilFromDays(t \div 86400)
        secs == t % 86400
    IN  [tm_year |-> date.year, tm_mon |-> date.mon, tm_mday |-> date.mday,
         tm_hour |-> secs \div 3600, tm_min |-> (secs % 3600) \div 60,
         tm_sec |-> secs % 60]

\* time.localtime(t) on this host: the bug of breaking the mtime down in
\* local time
localtime(t) == BrokenDown(t + tz)

\* time.gmtime(t)
gmtime(t) == BrokenDown(t)

\* %d-style zero-padded decimal of width 2 and 4
Dec2(n) == <<Digits[((n \div 10) % 10) + 1], Digits[(n % 10) + 1]>>
Dec4(n) == <<Digits[((n \div 1000) % 10) + 1], Digits[((n \div 100) % 10) + 1]>> \o Dec2(n)

\* time.strftime("%Y-%m-%dT%H:%M:%S.000+00:00", tm)
strftime(tm) ==
    Dec4(tm.tm_year) \o <<"-">> \o Dec2(tm.tm_mon) \o <<"-">> \o Dec2(tm.tm_mday)
    \o <<"T">> \o Dec2(tm.tm_hour) \o <<":">> \o Dec2(tm.tm_min) \o <<":">>
    \o Dec2(tm.tm_sec) \o <<".","0","0","0","+","0","0",":","0","0">>

get_file_info(name, node) ==
    [name |-> name,
     size |-> node.st_size,
     lastModified |-> strftime(gmtime(node.st_mtime))]

(***************************************************************************)
(* parse_version (lines 33-40)                                             *)
(***************************************************************************)
\* the bug of replacing both separators
parse_version_both(version_dir) == Replace(Replace(version_dir, "-", "."), "_", ".")

parse_version(version_dir) ==
    IF Contains(version_dir, "-") THEN Replace(version_dir, "-", ".")
    ELSE IF Contains(version_dir, "_") THEN Replace(version_dir, "_", ".")
    ELSE version_dir

(***************************************************************************)
(* get_app_metadata (lines 42-70).  An application directory holds the     *)
(* fixed-name files as fields: yml and json are [exists, syntax, kind,     *)
(* map], readme is [exists, utf8, text], icons is the set of icon files    *)
(* present.  The result is [raised, ismap, value, opened]: raised when an  *)
(* exception leaves the function, ismap whether value is a dict.           *)
(***************************************************************************)
EmptyDict == [k \in {} |-> <<>>]

IconNames == <<"logo.png", "icon.png", "logo.svg", "icon.svg">>

\* the bug of reading both files, metadata.yml overriding metadata.json
LoadMetadataFileMerged(app) ==
    LET yml == IF app.yml.exists /\ app.yml.kind = "mapping" THEN app.yml.map ELSE EmptyDict
        json == IF app.json.exists /\ app.json.kind = "mapping" THEN app.json.map ELSE EmptyDict
    IN  [raised |-> \/ app.yml.exists /\ app.yml.syntax = "bad"
                    \/ app.json.exists /\ app.json.syntax = "bad",
         ismap |-> /\ app.yml.exists => app.yml.kind \in {"mapping", "falsy"}
                   /\ app.json.exists => app.json.kind = "mapping",
         value |-> yml @@ json,
         opened |-> {f \in {"metadata.yml", "metadata.json"} :
                        \/ f = "metadata.yml" /\ app.yml.exists
                        \/ f = "metadata.json" /\ app.json.exists}]

\* lines 50-55: yaml.safe_load(f) or {}   /   json.load(f)
LoadMetadataFile(app) ==
    IF app.yml.exists
    THEN [raised |-> app.yml.syntax = "bad",
          ismap |-> app.yml.kind \in {"mapping", "falsy"},
          value |-> IF app.yml.kind = "mapping" THEN app.yml.map ELSE EmptyDict,
          opened |-> {"metadata.yml"}]
    ELSE IF app.json.exists
    THEN [raised |-> app.json.syntax = "bad",
          ismap |-> app.json.kind = "mapping",
          value |-> IF app.json.kind = "mapping" THEN app.json.map ELSE EmptyDict,
          opened |-> {"metadata.json"}]
    ELSE [raised |-> FALSE, ismap |-> TRUE, value |-> EmptyDict, opened |-> {}]

\* lines 58-61: metadata['readMe'] = f.read()
LoadReadme(app, m) ==
    IF m.raised \/ ~app.readme.exists THEN m
    ELSE [raised |-> ~app.readme.utf8 \/ ~m.ismap,
          ismap |-> m.ismap,
          value |-> [readMe |-> app.readme.text] @@ m.value,
          opened |-> m.opened \cup {"README.md"}]

\* lines 64-68: the first icon_name whose file exists, 0 when there is none
RECURSIVE FirstIcon(_, _)
FirstIcon(icons, k) ==
    IF k > Len(IconNames) THEN 0
    ELSE IF IconNames[k] \in icons THEN k
    ELSE FirstIcon(icons, k + 1)

IconUrl(app_name, icon_name) ==
    base_url \o <<"/apps/">> \o app_name \o <<"/", icon_name>>

LoadIcon(app_name, app, m) ==
    LET k == FirstIcon(app.icons, 1) IN
    IF m.raised \/ k = 0 THEN m
    ELSE [raised |-> ~m.ismap,
          ismap |-> m.ismap,
          value |-> [icon |-> IconUrl(app_name, IconNames[k])] @@ m.value,
          opened |-> m.opened]

get_app_metadata(app_name, app) ==
    LoadIcon(app_name, app, LoadReadme(app, LoadMetadataFile(app)))

(***************************************************************************)
(* process_version (lines 72-103).  A version directory is [kind, entries] *)
(* with entries a function from names to nodes; a file node carries        *)
(* st_size, st_mtime, utf8 (can it be read as text) and text.  listing is  *)
(* the order in which iterdir() yields the names.  The result is           *)
(* [raised, value].                                                        *)
(***************************************************************************)
ReadmeName == <<"R","E","A","D","M","E",".","m","d">>

\* lines 77-80
CollectFiles(dir, listing) ==
    LET kept == SelectSeq(listing,
                    LAMBDA n : IsFile(dir.entries[n]) /\ ~StartsWithDot(n))
    IN  [k \in 1..Len(kept) |-> get_file_info(kept[k], dir.entries[kept[k]])]

VersionUrl(app_name, version) == base_url \o <<"/apps/">> \o app_name \o <<"/">> \o version

CallbackUrl(app_name, version) ==
    <<"https://api.github.com/repos/">> \o github_repo \o <<"/contents/apps/">>
    \o app_name \o <<"/">> \o version

process_version(app_name, version, dir, listing) ==
    LET files == SortByName(CollectFiles(dir, listing), FALSE)
        has_readme == ReadmeName \in DOMAIN dir.entries
        readme == dir.entries[ReadmeName]
    IN  [raised |-> has_readme /\ (~IsFile(readme) \/ ~readme.utf8),
         value |->
            [valid |-> TRUE,
             violations |-> <<>>,
             id |-> version,
             readMe |-> IF has_readme /\ IsFile(readme) THEN <<readme.text>> ELSE <<>>,
             name |-> parse_version(version),
             lastModified |-> clock,
             files |-> files,
             downloadUrl |-> VersionUrl(app_name, version),
             downloadCallbackUrl |-> CallbackUrl(app_name, version)]]

(***************************************************************************)
(* process_app (lines 105-160)                                             *)
(***************************************************************************)
\* lines 111-142
AppDefaults(app_name, md) ==
    [valid |-> TRUE,
     violations |-> <<>>,
     id |-> app_name,
     lastModified |-> clock,
     icon |-> Get(md, "icon", IconUrl(app_name, "logo.png")),
     readMe |-> Get(md, "readMe",
                    <<"# ">> \o Title(app_name) \o <<"\n\nDescription for ">>
                    \o app_name \o <<"...">>),
     description |-> Get(md, "description", <<"Description for ">> \o app_name),
     name |-> Get(md, "name", Title(app_name)),
     tags |-> Get(md, "tags", <<>>),
     title |-> Get(md, "title", Title(app_name)),
     additionalProperties |->
        [key |-> app_name,
         name |-> Get(md, "name", Title(app_name)),
         tags |-> Get(md, "tags", <<>>),
         shortDescZh |-> Get(md, "shortDescZh", <<>>),
         shortDescEn |-> Get(md, "shortDescEn", Get(md, "description", <<>>)),
         description |-> Get(md, "descriptions",
                             [en |-> Get(md, "description", <<>>),
                              zh |-> Get(md, "descriptionZh", <<>>)]),
         type |-> Get(md, "type", "runtime"),
         crossVersionUpdate |-> Get(md, "crossVersionUpdate", TRUE),
         limit |-> Get(md, "limit", 1),
         recommend |-> Get(md, "recommend", 100),
         website |-> Get(md, "website", <<>>),
         github |-> Get(md, "github", <<>>),
         document |-> Get(md, "document", <<>>),
         architectures |-> Get(md, "architectures", <<"amd64", "arm64">>)],
     versions |-> <<>>]

\* the position after the run of digits that starts at p
RECURSIVE SkipDigits(_, _)
SkipDigits(name, p) ==
    IF p <= Len(name) /\ IsDigit(name[p]) THEN SkipDigits(name, p + 1) ELSE p

\* the bug of the pattern r'^v?\d+', which takes a single number
MatchesNumber(name) ==
    LET p0 == IF Len(name) >= 1 /\ name[1] = "v" THEN 2 ELSE 1
    IN  SkipDigits(name, p0) > p0

\* line 149: re.match(r'^v?\d+[-._]\d+', name)
MatchesVersionPattern(name) ==
    LET p0 == IF Len(name) >= 1 /\ name[1] = "v" THEN 2 ELSE 1
        p1 == SkipDigits(name, p0)
    IN  /\ p1 > p0
        /\ p1 + 1 <= Len(name)
        /\ name[p1] \in {"-", ".", "_"}
        /\ IsDigit(name[p1 + 1])

Latest == <<"l","a","t","e","s","t">>
Stable == <<"s","t","a","b","l","e">>

\* lines 147-149
IsVersionDir(name, node) ==
    /\ IsDir(node)
    /\ ~StartsWithDot(name)
    /\ (MatchesVersionPattern(name) \/ name \in {Latest, Stable})

\* lines 145-153.  The fixed-name files of the application directory (the
\* metadata files, README.md, the icons) are regular files, which line 147 drops.
ListVersionDirs(app, listing) ==
    LET kept == SelectSeq(listing, LAMBDA n : IsVersionDir(n, app.entries[n]))
    IN  SortByName([k \in 1..Len(kept) |-> Path(kept[k])], TRUE)

(***************************************************************************)
(* save (lines 202-206): mode 'w' truncates the file, json.dump writes the *)
(* data.                                                                   *)
(***************************************************************************)
\* the bug of keeping the applications the file already lists
save_merged(data) ==
    IF output_file = <<>> THEN <<data>>
    ELSE <<[data EXCEPT !.apps = output_file[1].apps \o @]>>

save(data) == <<data>>

(***************************************************************************)
(* generate (lines 162-200), one action per step.                          *)
(***************************************************************************)
\* the orders in which iterdir() can yield the names of a directory
Listings(names) == {s \in [1..Cardinality(names) -> names] : Range(s) = names}

\* lines 164-176
NewStore ==
    [valid |-> TRUE,
     violations |-> <<>>,
     id |-> "corapanel",
     icon |-> "https://cdn-icons-png.flaticon.com/512/4187/4187336.png",
     lastModified |-> clock,
     name |-> "CoraPANEL",
     title |-> "Official Appstore for CoraPANEL",
     extra |-> [version |-> "v1.0.0"],
     apps |-> <<>>]

\* lines 185-187
ListAppDirs(listing) ==
    LET kept == SelectSeq(listing,
                    LAMBDA n : IsDir(fs.root[n]) /\ ~StartsWithDot(n))
    IN  SortByName([k \in 1..Len(kept) |-> Path(kept[k])], FALSE)

NoLocals ==
    /\ metadata' = <<>>
    /\ app_data' = <<>>
    /\ version_dirs' = <<>>
    /\ j' = 0

World == <<fs, environ, tz, clock, github_repo, run, first>>

\* the bug of returning on a missing apps root without writing the file
GenerateMissingNoSave ==
    /\ pc = "start"
    /\ ~fs.exists
    /\ store_data' = NewStore
    /\ pc' = "done"
    /\ UNCHANGED <<World, output_file, saves, app_dirs, i, metadata, app_data,
                   version_dirs, j, log, opened, listed>>

\* lines 164-182: the apps root is missing
GenerateMissing ==
    /\ pc = "start"
    /\ ~fs.exists
    /\ store_data' = NewStore
    /\ output_file' = save(store_data')
    /\ saves' = saves + 1
    /\ pc' = "done"
    /\ UNCHANGED <<World, app_dirs, i, metadata, app_data, version_dirs, j,
                   log, opened, listed>>

\* lines 164-187: the apps root is listed and sorted
GenerateList ==
    /\ pc = "start"
    /\ fs.exists
    /\ \E listing \in Listings(DOMAIN fs.root) :
            app_dirs' = ListAppDirs(listing)
    /\ store_data' = NewStore
    /\ i' = 1
    /\ listed' = listed \cup {<<"apps">>}
    /\ pc' = "apps"
    /\ UNCHANGED <<World, output_file, metadata, app_data, version_dirs, j,
                   saves, log, opened>>

\* lines 189-192 and 105-153: process_app up to the sorted version_dirs
ProcessAppBegin ==
    /\ pc = "apps"
    /\ i <= Len(app_dirs)
    /\ LET app_name == app_dirs[i].name
           app == fs.root[app_name]
           m == get_app_metadata(app_name, app)
       IN  /\ ~m.raised
           /\ m.ismap
           /\ metadata' = m.value
           /\ app_data' = AppDefaults(app_name, m.value)
           /\ \E listing \in Listings(DOMAIN app.entries) :
                    version_dirs' = ListVersionDirs(app, listing)
           /\ opened' = opened \cup {<<app_name, f>> : f \in m.opened}
           /\ listed' = listed \cup {<<"apps", app_name>>}
    /\ j' = 1
    /\ pc' = "versions"
    /\ UNCHANGED <<World, output_file, store_data, app_dirs, i, saves, log>>

\* the bug of an except clause that ends the loop
ProcessAppRaiseBreaks ==
    /\ pc = "apps"
    /\ i <= Len(app_dirs)
    /\ LET app_name == app_dirs[i].name
           m == get_app_metadata(app_name, fs.root[app_name])
       IN  /\ m.raised \/ ~m.ismap
           /\ opened' = opened \cup {<<app_name, f>> : f \in m.opened}
           /\ log' = Append(log, app_name)
    /\ i' = Len(app_dirs) + 1
    /\ UNCHANGED <<World, output_file, pc, store_data, app_dirs, metadata,
                   app_data, version_dirs, j, saves, listed>>

\* lines 189-196: get_app_metadata raises, or metadata.get does because the
\* file held no mapping; the except clause logs and continues
ProcessAppRaise ==
    /\ pc = "apps"
    /\ i <= Len(app_dirs)
    /\ LET app_name == app_dirs[i].name
           m == get_app_metadata(app_name, fs.root[app_name])
       IN  /\ m.raised \/ ~m.ismap
           /\ opened' = opened \cup {<<app_name, f>> : f \in m.opened}
           /\ log' = Append(log, app_name)
    /\ i' = i + 1
    /\ UNCHANGED <<World, output_file, pc, store_data, app_dirs, metadata,
                   app_data, version_dirs, j, saves, listed>>

\* lines 156-158: one version is processed and appended to app_data
ProcessVersion ==
    /\ pc = "versions"
    /\ j <= Len(version_dirs)
    /\ LET app_name == app_dirs[i].name
           version == version_dirs[j].name
           dir == fs.root[app_name].entries[version]
       IN  /\ \E listing \in Listings(DOMAIN dir.entries) :
                LET v == process_version(app_name, version, dir, listing)
                IN  /\ ~v.raised
                    /\ app_data' = [app_data EXCEPT !.versions = Append(@, v.value)]
           /\ listed' = listed \cup {<<"apps", app_name, version>>}
    /\ j' = j + 1
    /\ UNCHANGED <<World, output_file, pc, store_data, app_dirs, i, metadata,
                   version_dirs, saves, log, opened>>

\* the bug of appending the entry built so far when a version fails
ProcessVersionRaiseKeepsEntry ==
    /\ pc = "versions"
    /\ j <= Len(version_dirs)
    /\ LET app_name == app_dirs[i].name
           version == version_dirs[j].name
           dir == fs.root[app_name].entries[version]
       IN  /\ \E listing \in Listings(DOMAIN dir.entries) :
                process_version(app_name, version, dir, listing).raised
           /\ listed' = listed \cup {<<"apps", app_name, version>>}
           /\ log' = Append(log, app_name)
    /\ store_data' = [store_data EXCEPT !.apps = Append(@, app_data)]
    /\ NoLocals
    /\ i' = i + 1
    /\ pc' = "apps"
    /\ UNCHANGED <<World, output_file, app_dirs, saves, opened>>

\* lines 156-157 and 194-196: process_version raises, process_app is left with
\* its locals, the except clause logs and continues
ProcessVersionRaise ==
    /\ pc = "versions"
    /\ j <= Len(version_dirs)
    /\ LET app_name == app_dirs[i].name
           version == version_dirs[j].name
           dir == fs.root[app_name].entries[version]
       IN  /\ \E listing \in Listings(DOMAIN dir.entries) :
                process_version(app_name, version, dir, listing).raised
           /\ listed' = listed \cup {<<"apps", app_name, version>>}
           /\ log' = Append(log, app_name)
    /\ NoLocals
    /\ i' = i + 1
    /\ pc' = "apps"
    /\ UNCHANGED <<World, output_file, store_data, app_dirs, saves, opened>>

\* lines 160 and 193: process_app returns, the entry is appended
AppendApp ==
    /\ pc = "versions"
    /\ j > Len(version_dirs)
    /\ store_data' = [store_data EXCEPT !.apps = Append(@, app_data)]
    /\ NoLocals
    /\ i' = i + 1
    /\ pc' = "apps"
    /\ UNCHANGED <<World, output_file, app_dirs, saves, log, opened, listed>>

\* lines 198-200: the loop is over, the catalog is saved
Save ==
    /\ pc = "apps"
    /\ i > Len(app_dirs)
    /\ output_file' = save(store_data)
    /\ saves' = saves + 1
    /\ pc' = "done"
    /\ UNCHANGED <<World, store_data, app_dirs, i, metadata, app_data,
                   version_dirs, j, log, opened, listed>>

(***************************************************************************)
(* The script is run again (main, lines 208-211): a new process, a new     *)
(* generator, the same file system; the clock and the host's time zone are *)
(* those of the new run, and appstore.json is what the first run left.     *)
(***************************************************************************)
Clocks == {1700000000, 1700000060}
TzOffsets == {0, 25200}

Rerun ==
    /\ pc = "done"
    /\ run = 1
    /\ first' = [output |-> output_file, clock |-> clock, tz |-> tz]
    /\ run' = 2
    /\ clock' \in {c \in Clocks : c >= clock}
    /\ tz' \in TzOffsets
    /\ github_repo' = InitRepo(environ)
    /\ pc' = "start"
    /\ store_data' = <<>>
    /\ app_dirs' = <<>>
    /\ i' = 0
    /\ saves' = 0
    /\ log' = <<>>
    /\ opened' = {}
    /\ listed' = {}
    /\ UNCHANGED <<fs, environ, output_file, metadata, app_data, version_dirs, j>>

Next ==
    \/ GenerateMissing
    \/ GenerateList
    \/ ProcessAppBegin
    \/ ProcessAppRaise
    \/ ProcessVersion
    \/ ProcessVersionRaise
    \/ AppendApp
    \/ Save
    \/ Rerun

(***************************************************************************)
(* The worlds the script is run in.  A world is [fs, environ, tz, prior]:  *)
(* the tree under apps/, the environment, the host's time zone and the     *)
(* contents of appstore.json before the first run.                         *)
(***************************************************************************)
FileNode(size, mtime) ==
    [kind |-> "file", st_size |-> size, st_mtime |-> mtime, utf8 |-> TRUE,
     text |-> <<"contents">>]

Mtimes == {0, 1709251199, 1735689599}

SomeFile == FileNode(12, 1709251199)
GoodReadmeFile == [FileNode(7, 1709251199) EXCEPT !.text = <<"version readme">>]
BadReadmeFile == [FileNode(7, 1709251199) EXCEPT !.utf8 = FALSE]
PlainDir == [kind |-> "dir", entries |-> <<>>]

VersionDir(entries) == [kind |-> "dir", entries |-> entries]

\* a healthy version directory: two files and a sub-directory
GoodVersion ==
    VersionDir((<<"b",".","s","h">> :> FileNode(20, 0))
            @@ (<<"a",".","s","h">> :> SomeFile)
            @@ (<<"s","u","b">> :> PlainDir))

\* a version directory whose README.md cannot be decoded
BadVersion ==
    VersionDir((ReadmeName :> BadReadmeFile) @@ (<<"a",".","s","h">> :> SomeFile))

\* a healthy version directory: a file and a hidden file
SmallVersion ==
    VersionDir((<<"a",".","s","h">> :> SomeFile) @@ (<<".","e","n","v">> :> SomeFile))

Absent == [exists |-> FALSE]

YmlMap ==
    [name |-> <<"Y","m","l">>,
     icon |-> <<"https://example.org/yml.png">>,
     readMe |-> <<"readme of metadata.yml">>,
     tags |-> <<"database">>]

JsonMap ==
    [name |-> <<"J","s","o","n">>,
     title |-> <<"J","s","o","n"," ","T">>,
     description |-> <<"description of metadata.json">>,
     architectures |-> <<"amd64">>]

MetaFile(syntax, kind, map) ==
    [exists |-> TRUE, syntax |-> syntax, kind |-> kind, map |-> map]

YmlFiles ==
    {Absent, MetaFile("bad", "none", EmptyDict), MetaFile("ok", "falsy", EmptyDict),
     MetaFile("ok", "scalar", EmptyDict), MetaFile("ok", "mapping", YmlMap)}

JsonFiles ==
    {Absent, MetaFile("bad", "none", EmptyDict), MetaFile("ok", "null", EmptyDict),
     MetaFile("ok", "mapping", JsonMap)}

GoodReadme == [exists |-> TRUE, utf8 |-> TRUE, text |-> <<"readme of the app">>]

ReadmeFiles == {Absent, GoodReadme, [GoodReadme EXCEPT !.utf8 = FALSE]}

AppDir(yml, json, readme, icons, entries) ==
    [kind |-> "dir", yml |-> yml, json |-> json, readme |-> readme,
     icons |-> icons, entries |-> entries]

BareApp(entries) == AppDir(Absent, Absent, Absent, {}, entries)

BrokenApp == AppDir(MetaFile("bad", "none", EmptyDict), Absent, Absent, {}, <<>>)

\* the directories with at most max entries, nodes[n] being the nodes the
\* entry named n may be
Dirs(nodes, max) ==
    UNION {{f \in [S -> UNION {nodes[n] : n \in S}] : \A n \in S : f[n] \in nodes[n]} :
           S \in {T \in SUBSET DOMAIN nodes : Cardinality(T) <= max}}

Repo == [GITHUB_REPOSITORY |-> <<"cloudora-vn/appstore">>]

Environs == {EmptyDict, Repo}

NoOutput == <<>>
\* what a run over another tree left behind
StaleOutput ==
    <<[valid |-> TRUE, violations |-> <<>>, id |-> "corapanel",
       icon |-> "https://cdn-icons-png.flaticon.com/512/4187/4187336.png",
       lastModified |-> 1600000000, name |-> "CoraPANEL",
       title |-> "Official Appstore for CoraPANEL",
       extra |-> [version |-> "v1.0.0"],
       apps |-> <<[id |-> <<"o","l","d">>, versions |-> <<>>]>>]>>

MakeWorld(tree, env, zone, prior) ==
    [fs |-> tree, environ |-> env, tz |-> zone, prior |-> prior]

Db == <<"d","b">>
Web == <<"w","e","b">>
DotGit == <<".","g","i","t">>

\* worlds every family holds: no apps/ at all, and an apps/ with a healthy
\* application, one with malformed metadata and one with an unreadable version
CoreWorlds ==
    {MakeWorld([exists |-> FALSE, root |-> <<>>], e, 0, NoOutput) : e \in Environs}
    \cup
    {MakeWorld([exists |-> TRUE,
                root |-> (Db :> BareApp(<<"1",".","0">> :> SmallVersion))
                      @@ (Web :> BrokenApp)
                      @@ (<<"x">> :> BareApp(<<"1",".","0">> :> BadVersion))],
               EmptyDict, 0, NoOutput)}

(***************************************************************************)
(* The run family: up to MaxApps entries under apps/, each application     *)
(* with up to MaxVersions entries.                                         *)
(***************************************************************************)
V200 == <<"2","-","0","-","0">>
V1000 == <<"1","0","-","0","-","0">>
DataDir == <<"d","a","t","a">>

RunVersionNodes ==
    [name \in {V200, V1000, DataDir} |->
        IF name = DataDir THEN {SmallVersion} ELSE {GoodVersion, BadVersion}]

RunApps == {BareApp(e) : e \in Dirs(RunVersionNodes, MaxVersions)} \cup {BrokenApp}

RunRootNodes ==
    [name \in {Db, Web, DotGit} |->
        IF StartsWithDot(name) THEN {PlainDir, SomeFile} ELSE RunApps \cup {SomeFile}]

RunWorlds ==
    {MakeWorld([exists |-> TRUE, root |-> r], s[1], 0, s[2]) :
        r \in Dirs(RunRootNodes, MaxApps),
        s \in {<<EmptyDict, StaleOutput>>, <<Repo, NoOutput>>}}
    \cup
    {MakeWorld([exists |-> FALSE, root |-> <<>>], e, 0, o) :
        e \in Environs, o \in {NoOutput, StaleOutput}}
    \cup CoreWorlds

(***************************************************************************)
(* The metadata family: one application with every combination of          *)
(* metadata.yml, metadata.json, README.md and icon files, and applications *)
(* without metadata files under several names.                             *)
(***************************************************************************)
V10 == <<"1",".","0">>

TitledNames ==
    {<<"m","y","-","a","p","p">>, <<"d","b","2","g","o">>, <<"x","_","y">>,
     <<"m","y","A","P","P">>, <<"1","p","a","s","s">>}

MetaApps ==
    {AppDir(y, js, r, ic, V10 :> SmallVersion) :
        y \in YmlFiles, js \in JsonFiles, r \in ReadmeFiles,
        ic \in SUBSET Range(IconNames)}

MetaWorlds ==
    {MakeWorld([exists |-> TRUE, root |-> Db :> a], Repo, 0, NoOutput) : a \in MetaApps}
    \cup
    {MakeWorld([exists |-> TRUE,
                root |-> n :> AppDir(Absent, Absent, r, ic, V10 :> SmallVersion)],
               EmptyDict, 0, NoOutput) :
        n \in TitledNames, r \in {Absent, GoodReadme}, ic \in SUBSET Range(IconNames)}
    \cup CoreWorlds

(***************************************************************************)
(* The name family: one application with one entry, a directory or a file, *)
(* under every name of up to MaxNameLen characters and under the names the *)
(* documentation gives.                                                    *)
(***************************************************************************)
NameAlphabet == {"v", "1", "-", ".", "_"}

GeneratedNames == UNION {[1..n -> NameAlphabet] : n \in 1..MaxNameLen}

DocumentedNames ==
    {DataDir, <<".","h","i","d","d","e","n">>, <<"1">>, Latest, Stable,
     <<"v","1","-","0">>, <<"2",".","5",".","1">>, <<"1","-","2","6","-","0">>,
     <<"1","_","2","6","_","0">>, <<"v","2",".","0">>, <<"1","-","2","_","3">>,
     <<"l","a","t","e","s","t","1">>, <<"s","t","a","b","l">>, V200, V1000}

NameWorlds ==
    {MakeWorld([exists |-> TRUE, root |-> Db :> BareApp(n :> node)],
               EmptyDict, 0, NoOutput) :
        n \in GeneratedNames \cup DocumentedNames,
        node \in {SmallVersion, BadVersion, SomeFile}}
    \cup CoreWorlds

(***************************************************************************)
(* The file family: one version directory with up to MaxFiles entries of   *)
(* several modification times, on hosts of several time zones.             *)
(***************************************************************************)
FileNodes ==
    [name \in {<<"a",".","s","h">>, <<"b",".","s","h">>, <<".","e","n","v">>,
               <<"s","u","b">>, ReadmeName} |->
        IF name = <<"s","u","b">> THEN {PlainDir}
        ELSE IF name = ReadmeName THEN {GoodReadmeFile}
        ELSE {FileNode(12, m) : m \in Mtimes}]

FileWorlds ==
    {MakeWorld([exists |-> TRUE, root |-> Db :> BareApp(V10 :> VersionDir(e))],
               EmptyDict, z, NoOutput) :
        e \in Dirs(FileNodes, MaxFiles),
        z \in TzOffsets}
    \cup CoreWorlds

InitWith(worlds) ==
    /\ \E w \in worlds :
        /\ fs = w.fs
        /\ environ = w.environ
        /\ tz = w.tz
        /\ output_file = w.prior
        /\ github_repo = InitRepo(w.environ)
    /\ clock = 1700000000
    /\ pc = "start"
    /\ store_data = <<>>
    /\ app_dirs = <<>>
    /\ i = 0
    /\ metadata = <<>>
    /\ app_data = <<>>
    /\ version_dirs = <<>>
    /\ j = 0
    /\ saves = 0
    /\ log = <<>>
    /\ opened = {}
    /\ listed = {}
    /\ run = 1
    /\ first = [output |-> <<>>, clock |-> 0, tz |-> 0]

Init == InitWith(RunWorlds)

Spec == Init /\ [][Next]_vars

InitMeta == InitWith(MetaWorlds)
SpecMeta == InitMeta /\ [][Next]_vars

InitNames == InitWith(NameWorlds)
SpecNames == InitNames /\ [][Next]_vars

InitFiles == InitWith(FileWorlds)
SpecFiles == InitFiles /\ [][Next]_vars

(***************************************************************************)
(* What the claims speak of, stated on the file system itself.             *)
(***************************************************************************)
Positions == {"start", "apps", "versions", "done"}

\* the application directories: the non-hidden directories under apps/
AppNames == {n \in DOMAIN fs.root : fs.root[n].kind = "dir" /\ n[1] # "."}

\* "optional v, one or more digits, one separator, one or more digits" at the
\* start of the name
VersionLike(name) ==
    \E v \in {0, 1}, d \in 1..Len(name) :
        /\ v = 1 => name[1] = "v"
        /\ v + d + 2 <= Len(name)
        /\ \A k \in (v + 1)..(v + d) : name[k] \in Range(Digits)
        /\ name[v + d + 1] \in {"-", ".", "_"}
        /\ name[v + d + 2] \in Range(Digits)

\* the entries of an application directory that are its versions
VersionNames(app) ==
    {n \in DOMAIN app.entries :
        /\ app.entries[n].kind = "dir"
        /\ n[1] # "."
        /\ VersionLike(n) \/ n = Latest \/ n = Stable}

\* reading the application's metadata fails
MetadataFails(app) ==
    \/ app.yml.exists /\ (app.yml.syntax = "bad" \/ app.yml.kind = "scalar")
    \/ ~app.yml.exists /\ app.json.exists
         /\ (app.json.syntax = "bad" \/ app.json.kind = "null")
    \/ app.readme.exists /\ ~app.readme.utf8

\* reading one of the application's versions fails
VersionFails(dir) ==
    /\ ReadmeName \in DOMAIN dir.entries
    /\ dir.entries[ReadmeName].kind = "dir" \/ ~dir.entries[ReadmeName].utf8

SomeVersionFails(app) == \E n \in VersionNames(app) : VersionFails(app.entries[n])

AppFails(app) == MetadataFails(app) \/ SomeVersionFails(app)

Ids(list) == {list[k].id : k \in 1..Len(list)}

Emitted == output_file[1]

\* C1: whatever applications fail, the run is not aborted, save() is called
\* exactly once after the loop, and the saved catalog lists exactly the
\* applications that did not fail, each once; the failing ones are the logged ones.
C1_FaultIsolation ==
    /\ pc \in Positions
    /\ pc # "done" => saves = 0
    /\ (pc = "done" /\ fs.exists) =>
        /\ saves = 1
        /\ Ids(Emitted.apps) = {n \in AppNames : ~AppFails(fs.root[n])}
        /\ Len(Emitted.apps) = Cardinality(Ids(Emitted.apps))
        /\ Range(log) = {n \in AppNames : AppFails(fs.root[n])}

C1_Witness ==
    /\ pc = "done"
    /\ saves = 1
    /\ \E a, b \in AppNames :
        /\ AppFails(fs.root[a])
        /\ StrLess(a, b)
        /\ Ids(Emitted.apps) = {b}

\* C2: without an apps root nothing is listed, opened or processed, no error
\* is raised, and the file is written once with the constant fields and no apps.
C2_MissingRoot ==
    ~fs.exists =>
        /\ pc \in {"start", "done"}
        /\ listed = {} /\ opened = {} /\ log = <<>> /\ app_dirs = <<>>
        /\ pc = "start" => saves = 0
        /\ pc = "done" =>
            /\ saves = 1
            /\ Emitted.apps = <<>>
            /\ Emitted.id = "corapanel"
            /\ Emitted.icon = "https://cdn-icons-png.flaticon.com/512/4187/4187336.png"
            /\ Emitted.name = "CoraPANEL"
            /\ Emitted.title = "Official Appstore for CoraPANEL"
            /\ Emitted.extra = [version |-> "v1.0.0"]
            /\ Emitted.valid = TRUE
            /\ Emitted.violations = <<>>

C2_Witness == ~fs.exists /\ pc = "done" /\ run = 2 /\ first.output # <<>>

Ascending(list) ==
    \A a, b \in 1..Len(list) : a < b => StrLess(list[a].id, list[b].id)

Descending(list) ==
    \A a, b \in 1..Len(list) : a < b => StrLess(list[b].id, list[a].id)

\* C3: in the emitted catalog the applications ascend by directory name and
\* the versions of each descend by directory name, as strings: 2-0-0 comes
\* before 10-0-0.
C3_Ordering ==
    pc = "done" =>
        /\ Ascending(Emitted.apps)
        /\ \A k \in 1..Len(Emitted.apps) :
            LET versions == Emitted.apps[k].versions IN
            /\ Descending(versions)
            /\ \A a, b \in 1..Len(versions) :
                (versions[a].id = V200 /\ versions[b].id = V1000) => a < b

C3_Witness ==
    /\ pc = "done"
    /\ Len(Emitted.apps) >= 2
    /\ \E k \in 1..Len(Emitted.apps) :
        /\ Len(Emitted.apps[k].versions) = 2
        /\ Emitted.apps[k].versions[1].id = V200
        /\ Emitted.apps[k].versions[2].id = V1000

\* the files a version directory is to show: regular, not hidden
FileNames(dir) ==
    {n \in DOMAIN dir.entries : dir.entries[n].kind = "file" /\ n[1] # "."}

FilesInOrder(app_name, version) ==
    LET files == version.files
        dir == fs.root[app_name].entries[version.id]
    IN  /\ \A a, b \in 1..Len(files) : a < b => StrLess(files[a].name, files[b].name)
        /\ {files[k].name : k \in 1..Len(files)} = FileNames(dir)

\* C8: a second run over the same file system, with the same repository
\* identifier and the same clock value, leaves the same catalog as the first,
\* whatever the listing orders of the two runs, the hosts' time zones and the
\* contents of the output file before each run; the files of every version are
\* the regular non-hidden ones in ascending order of name.
C8_Determinism ==
    pc = "done" =>
        /\ (run = 2 /\ clock = first.clock) => output_file = first.output
        /\ \A k \in 1..Len(Emitted.apps) :
            /\ Emitted.apps[k].id \in AppNames
            /\ \A v \in 1..Len(Emitted.apps[k].versions) :
                FilesInOrder(Emitted.apps[k].id, Emitted.apps[k].versions[v])

C8_Witness ==
    /\ pc = "done" /\ run = 2 /\ clock = first.clock /\ tz # first.tz
    /\ \E k \in 1..Len(Emitted.apps) :
        \E v \in 1..Len(Emitted.apps[k].versions) :
            /\ Len(Emitted.apps[k].versions[v].files) = 2
            /\ Cardinality(DOMAIN fs.root[Emitted.apps[k].id]
                                    .entries[Emitted.apps[k].versions[v].id].entries) = 3

Complete(entry) ==
    /\ Ids(entry.versions) = VersionNames(fs.root[entry.id])
    /\ Len(entry.versions) = Cardinality(VersionNames(fs.root[entry.id]))
    /\ ~SomeVersionFails(fs.root[entry.id])

\* C10: an entry of the catalog always holds all the versions of its
\* application, an application with a version that fails has no entry, and a
\* failure leaves the entries appended so far as they were.
C10_AllOrNothing ==
    /\ [](pc # "start" => \A k \in 1..Len(store_data.apps) : Complete(store_data.apps[k]))
    /\ [](pc = "done" => \A k \in 1..Len(Emitted.apps) : Complete(Emitted.apps[k]))
    /\ [][(pc' # "start" /\ log' # log) => store_data' = store_data]_vars

C10_Witness ==
    /\ pc = "done"
    /\ Len(Emitted.apps) = 1
    /\ \E a \in AppNames \ Ids(Emitted.apps) :
        /\ StrLess(Emitted.apps[1].id, a)
        /\ \E m, n \in VersionNames(fs.root[a]) :
            /\ ~VersionFails(fs.root[a].entries[m])
            /\ VersionFails(fs.root[a].entries[n])
            /\ StrLess(n, m)

\* every version entry the run has built so far or written
BuiltVersions ==
    (IF pc = "versions" THEN Range(app_data.versions) ELSE {})
    \cup (IF pc = "done"
          THEN UNION {Range(Emitted.apps[k].versions) : k \in 1..Len(Emitted.apps)}
          ELSE {})

\* C4: the versions of an application are exactly its entries that are
\* directories, not hidden, and named like a version or latest or stable; the
\* other entries are skipped without an error; the id is the directory name.
C4_Classification ==
    /\ pc = "versions" =>
        /\ {version_dirs[k].name : k \in 1..Len(version_dirs)}
                = VersionNames(fs.root[app_dirs[i].name])
        /\ \A n \in {DataDir, <<".","h","i","d","d","e","n">>, <<"1">>} :
                \A k \in 1..Len(version_dirs) : version_dirs[k].name # n
        /\ \A n \in {Latest, Stable, <<"v","1","-","0">>, <<"2",".","5",".","1">>} :
                (n \in DOMAIN fs.root[app_dirs[i].name].entries
                    /\ fs.root[app_dirs[i].name].entries[n].kind = "dir")
                => \E k \in 1..Len(version_dirs) : version_dirs[k].name = n
    /\ pc = "done" =>
        /\ \A k \in 1..Len(Emitted.apps) :
                Ids(Emitted.apps[k].versions) = VersionNames(fs.root[Emitted.apps[k].id])
        /\ \A n \in AppNames :
                ~AppFails(fs.root[n]) => (n \in Ids(Emitted.apps) /\ n \notin Range(log))

C4_Witness ==
    /\ pc = "done"
    /\ Len(Emitted.apps) = 1
    /\ Emitted.apps[1].versions = <<>>
    /\ <<"1">> \in DOMAIN fs.root[Emitted.apps[1].id].entries
    /\ fs.root[Emitted.apps[1].id].entries[<<"1">>].kind = "dir"
    /\ VersionFails(fs.root[Emitted.apps[1].id].entries[<<"1">>])

\* the name the documentation gives for a directory name
Normalised(id, name) ==
    /\ Len(name) = Len(id)
    /\ \A k \in 1..Len(id) :
        name[k] = IF id[k] = "-" THEN "."
                  ELSE IF id[k] = "_" /\ (\A m \in 1..Len(id) : id[m] # "-") THEN "."
                  ELSE id[k]

\* C5: the name of a version is its directory name with every - replaced by
\* a dot when there is a -, else with every _ replaced by a dot, else unchanged.
C5_ParseVersion ==
    \A v \in BuiltVersions :
        /\ Normalised(v.id, v.name)
        /\ v.id = <<"1","-","2","6","-","0">> => v.name = <<"1",".","2","6",".","0">>
        /\ v.id = <<"1","_","2","6","_","0">> => v.name = <<"1",".","2","6",".","0">>
        /\ v.id = <<"v","2",".","0">> => v.name = <<"v","2",".","0">>
        /\ v.id = <<"1","-","2","_","3">> => v.name = <<"1",".","2","_","3">>

C5_Witness ==
    /\ pc = "done"
    /\ \E v \in BuiltVersions :
        v.id = <<"1","-","2","_","3">> /\ v.name = <<"1",".","2","_","3">>

\* the mapping of the one metadata file that counts
MetadataOf(app) ==
    IF app.yml.exists THEN (IF app.yml.kind = "mapping" THEN app.yml.map ELSE EmptyDict)
    ELSE IF app.json.exists THEN app.json.map
    ELSE EmptyDict

SameAt(key, d, e) ==
    /\ key \in DOMAIN d <=> key \in DOMAIN e
    /\ key \in DOMAIN d => d[key] = e[key]

IconOrder == <<"logo.png", "icon.png", "logo.svg", "icon.svg">>

\* C6: the mapping get_app_metadata returns holds the keys of one metadata
\* file only (metadata.yml when it exists, else metadata.json, else none), the
\* other file is not opened; readMe is the text of README.md when it exists;
\* icon is the URL of the first icon file present, in the order logo.png,
\* icon.png, logo.svg, icon.svg, and is as parsed when there is none.
C6_MetadataLoader ==
    pc = "versions" =>
        LET app_name == app_dirs[i].name
            app == fs.root[app_name]
            parsed == MetadataOf(app)
        IN  /\ \A key \in (DOMAIN metadata \cup DOMAIN parsed) \ {"readMe", "icon"} :
                    SameAt(key, metadata, parsed)
            /\ <<app_name, "metadata.yml">> \in opened <=> app.yml.exists
            /\ <<app_name, "metadata.json">> \in opened
                    <=> (~app.yml.exists /\ app.json.exists)
            /\ IF app.readme.exists
               THEN "readMe" \in DOMAIN metadata /\ metadata.readMe = app.readme.text
               ELSE SameAt("readMe", metadata, parsed)
            /\ IF app.icons = {}
               THEN SameAt("icon", metadata, parsed)
               ELSE \E k \in 1..4 :
                        /\ IconOrder[k] \in app.icons
                        /\ \A m \in 1..(k - 1) : IconOrder[m] \notin app.icons
                        /\ "icon" \in DOMAIN metadata
                        /\ metadata.icon =
                              <<"https://raw.githubusercontent.com/">> \o github_repo
                              \o <<"/main", "/apps/">> \o app_name \o <<"/", IconOrder[k]>>

C6_Witness ==
    /\ pc = "versions"
    /\ fs.root[app_dirs[i].name].yml.exists
    /\ fs.root[app_dirs[i].name].yml.kind = "falsy"
    /\ fs.root[app_dirs[i].name].json.exists
    /\ fs.root[app_dirs[i].name].json.kind = "mapping"
    /\ fs.root[app_dirs[i].name].readme.exists
    /\ fs.root[app_dirs[i].name].icons = {"icon.png", "icon.svg"}
    /\ DOMAIN metadata = {"readMe", "icon"}

\* the title-cased names of the application directories of the model
TitleCased ==
    (Db :> <<"D","b">>) @@ (Web :> <<"W","e","b">>) @@ (<<"x">> :> <<"X">>)
    @@ (<<"m","y","-","a","p","p">> :> <<"M","y","-","A","p","p">>)
    @@ (<<"d","b","2","g","o">> :> <<"D","b","2","G","o">>)
    @@ (<<"x","_","y">> :> <<"X","_","Y">>)
    @@ (<<"m","y","A","P","P">> :> <<"M","y","a","p","p">>)
    @@ (<<"1","p","a","s","s">> :> <<"1","P","a","s","s">>)

BuiltApps ==
    (IF pc = "versions" THEN {app_data} ELSE {})
    \cup (IF pc = "done" THEN Range(Emitted.apps) ELSE {})

\* C7: the entry of an application without metadata.yml and metadata.json has
\* its directory name as id, the title-cased name as name and title, no tags,
\* the architectures amd64 and arm64, valid true and no violations, with or
\* without README.md and icon files.
C7_Defaults ==
    \A e \in BuiltApps :
        (~fs.root[e.id].yml.exists /\ ~fs.root[e.id].json.exists) =>
            /\ e.id \in AppNames
            /\ e.name = TitleCased[e.id]
            /\ e.title = TitleCased[e.id]
            /\ e.tags = <<>>
            /\ e.additionalProperties.architectures = <<"amd64", "arm64">>
            /\ e.valid = TRUE
            /\ e.violations = <<>>

C7_Witness ==
    /\ pc = "done"
    /\ \E e \in BuiltApps :
        /\ e.id = <<"m","y","-","a","p","p">>
        /\ e.name = <<"M","y","-","A","p","p">>
        /\ fs.root[e.id].readme.exists
        /\ fs.root[e.id].icons = {"icon.svg"}

\* the instant a rendered timestamp denotes, in seconds since the epoch
DigitAt(str, k) == IndexOf(str[k], Digits) - 1
Number2(str, k) == 10 * DigitAt(str, k) + DigitAt(str, k + 1)

DaysFromCivil(year, mon, mday) ==
    LET y == IF mon <= 2 THEN year - 1 ELSE year
        era == y \div 400
        yoe == y - era * 400
        doy == (153 * (IF mon > 2 THEN mon - 3 ELSE mon + 9) + 2) \div 5 + mday - 1
        doe == yoe * 365 + yoe \div 4 - yoe \div 100 + doy
    IN  era * 146097 + doe - 719468

Denoted(str) ==
    DaysFromCivil(100 * Number2(str, 1) + Number2(str, 3), Number2(str, 6),
                  Number2(str, 9)) * 86400
    + Number2(str, 12) * 3600 + Number2(str, 15) * 60 + Number2(str, 18)

EndsInUtcOffset(str) ==
    /\ Len(str) = 29
    /\ SubSeq(str, 24, 29) = <<"+","0","0",":","0","0">>

\* the files of the emitted catalog, each with its place and its node
EmittedFiles ==
    UNION {UNION {{<<k, v, f>> : f \in 1..Len(Emitted.apps[k].versions[v].files)} :
                  v \in 1..Len(Emitted.apps[k].versions)} :
           k \in 1..Len(Emitted.apps)}

FileAt(catalog, at) == catalog.apps[at[1]].versions[at[2]].files[at[3]]

NodeAt(at) ==
    fs.root[Emitted.apps[at[1]].id]
        .entries[Emitted.apps[at[1]].versions[at[2]].id]
        .entries[FileAt(Emitted, at).name]

\* C9 as stated: the timestamp ends in +00:00 but is the local time of the
\* host, so hosts of different time zones emit different strings and a host
\* off UTC emits a string that does not denote the modification time.
C9_LocalTime ==
    pc = "done" =>
        \A at \in EmittedFiles :
            /\ EndsInUtcOffset(FileAt(Emitted, at).lastModified)
            /\ tz # 0 => Denoted(FileAt(Emitted, at).lastModified) # NodeAt(at).st_mtime
            /\ (run = 2 /\ tz # first.tz) =>
                    FileAt(Emitted, at).lastModified
                        # FileAt(first.output[1], at).lastModified

\* C9 as amended: the timestamp ends in +00:00 and is the UTC time of the
\* file's mtime, so it denotes the modification time on every host and hosts
\* of different time zones emit the same string.
C9_UtcTime ==
    pc = "done" =>
        \A at \in EmittedFiles :
            /\ EndsInUtcOffset(FileAt(Emitted, at).lastModified)
            /\ Denoted(FileAt(Emitted, at).lastModified) = NodeAt(at).st_mtime
            /\ run = 2 =>
                    FileAt(Emitted, at).lastModified
                        = FileAt(first.output[1], at).lastModified

C9_Witness ==
    /\ pc = "done" /\ run = 2 /\ tz # 0 /\ first.tz = 0
    /\ \E at \in EmittedFiles :
        /\ NodeAt(at).st_mtime = 1735689599
        /\ FileAt(Emitted, at).lastModified =
            <<"2","0","2","4","-","1","2","-","3","1","T","2","3",":","5","9",":","5","9",
              ".","0","0","0","+","0","0",":","0","0">>

====
